---- MODULE Spec2Model ----
(***************************************************************************)
(* Attendance tracker: the Record Store (StorageService of                 *)
(* src/app/page.tsx) over its two backends, the browser's localStorage     *)
(* (ephemeral) and the SQLite table behind /api/records (durable:          *)
(* src/app/api/records/route.ts and the SQLiteService of                   *)
(* src/unnamed/part_000).                                                  *)
(*                                                                         *)
(* One caller invokes getRecords / saveRecord / deleteRecord /             *)
(* setStorageMode one after the other.  An operation in durable mode is    *)
(* three steps: the fetch is issued, the route handler runs (or the        *)
(* transport fails), and the awaiting code resumes, falling back to        *)
(* localStorage when the attempt failed.  An operation in ephemeral mode   *)
(* has no await before it touches localStorage and is a single step.       *)
(***************************************************************************)
EXTENDS Integers, Sequences, FiniteSets, TLC

(* ---------------------------- bounds ---------------------------------- *)

\* Largest value of the client clock (Date.now() ticks) explored.
MaxNow == 2

\* Largest AUTOINCREMENT id the durable table hands out.
MaxDbId == 2

\* Largest number of records kept in localStorage.
MaxLocal == 2

\* Client clock ticks per CURRENT_TIMESTAMP unit (one second) of the table.
TicksPerSecond == 2

(* ---------------------------- records --------------------------------- *)

\* Drafts as addRecord builds them (names, date, type, duration); the
\* created_at stamp is added when the draft is submitted.
DraftFields ==
    { [names |-> <<"A">>, date |-> "2024-01-05", type |-> "overtime", duration |-> "full"],
      [names |-> <<"A", "B">>, date |-> "2024-02-10", type |-> "leave", duration |-> "morning"] }

\* Date.now(): epoch milliseconds.  They are far above any AUTOINCREMENT id
\* the table can reach, hence the offset.
DateNow(t) == MaxDbId + 1 + t

\* A record stored by an earlier version of the page: no duration, no
\* created_at.  It was written before the explored clock values.
LegacyRecord ==
    [id |-> DateNow(0), names |-> <<"B">>, date |-> "2023-12-31", type |-> "leave"]

\* An id no backend ever assigned (AUTOINCREMENT starts at 1).
UnknownId == 0

Has(r, f) == f \in DOMAIN r

IdsOf(s) == { s[i].id : i \in 1..Len(s) }

IdsOfSet(S) == { r.id : r \in S }

\* JSON.stringify of a string array, as a token sequence, and JSON.parse of it.
JSONStringify(names) ==
    <<"[">> \o
    [i \in 1..(2 * Len(names) - 1) |->
        IF i % 2 = 1 THEN names[(i + 1) \div 2] ELSE ","] \o
    <<"]">>

IsPunct(tok) == tok \in {"[", ",", "]"}

JSONParse(toks) == SelectSeq(toks, LAMBDA tok : ~IsPunct(tok))

(* ---------------------------- strings --------------------------------- *)

\* The characters of the strings explored, in the order of their UTF-16
\* code units: tab, line feed, space, "-", the digits, "A", "B", "a", "b".
CodeUnits == "\t\n -0123456789ABab"

Digits == "0123456789"

charAt(s, i) == SubSeq(s, i, i)

\* The place of the character c in CodeUnits.
CodeUnit(c) == CHOOSE k \in 1..Len(CodeUnits) : charAt(CodeUnits, k) = c

\* What \s of a regular expression and trim() take for white space.
IsWhitespace(c) == c \in {"\t", "\n", " "}

\* String.prototype.substring(0, n)
substring(s, n) == SubSeq(s, 1, IF n < Len(s) THEN n ELSE Len(s))

\* String.prototype.startsWith
startsWith(s, prefix) ==
    /\ Len(prefix) <= Len(s)
    /\ SubSeq(s, 1, Len(prefix)) = prefix

\* String.prototype.includes
includes(s, part) ==
    \E i \in 1..(Len(s) + 1) :
        /\ i + Len(part) - 1 <= Len(s)
        /\ SubSeq(s, i, i + Len(part) - 1) = part

LowerChar(c) == IF c = "A" THEN "a" ELSE IF c = "B" THEN "b" ELSE c

RECURSIVE toLowerCase(_)
\* String.prototype.toLowerCase
toLowerCase(s) ==
    IF s = "" THEN "" ELSE LowerChar(Head(s)) \o toLowerCase(Tail(s))

RECURSIVE trimStart(_)
trimStart(s) ==
    IF s # "" /\ IsWhitespace(Head(s)) THEN trimStart(Tail(s)) ELSE s

RECURSIVE trimEnd(_)
trimEnd(s) ==
    IF s # "" /\ IsWhitespace(charAt(s, Len(s)))
    THEN trimEnd(SubSeq(s, 1, Len(s) - 1))
    ELSE s

\* String.prototype.trim
trim(s) == trimEnd(trimStart(s))

RECURSIVE split(_, _, _)
\* input.split(/[\s\n]+/): s is what is left to read, piece the piece being
\* read, inRun whether the character read last was white space.  A leading
\* or trailing run of white space gives an empty first or last piece.
split(s, piece, inRun) ==
    IF s = "" THEN <<piece>>
    ELSE IF IsWhitespace(Head(s))
         THEN IF inRun THEN split(Tail(s), piece, TRUE)
              ELSE <<piece>> \o split(Tail(s), "", TRUE)
         ELSE split(Tail(s), piece \o Head(s), FALSE)

\* parseNames without its filter: the empty pieces stay.
parseNamesKeepEmpty(input) ==
    [i \in 1..Len(split(input, "", FALSE)) |-> trim(split(input, "", FALSE)[i])]

\* parseNames: split on runs of white space, trim, drop the empty pieces.
parseNames(input) ==
    SelectSeq([i \in 1..Len(split(input, "", FALSE)) |-> trim(split(input, "", FALSE)[i])],
              LAMBDA name : Len(name) > 0)

RECURSIVE CodeUnitsBefore(_, _)
\* The default comparison of Array.prototype.sort: a sorts before b by
\* UTF-16 code units.
CodeUnitsBefore(a, b) ==
    IF a = "" THEN b # ""
    ELSE IF b = "" THEN FALSE
    ELSE IF Head(a) = Head(b) THEN CodeUnitsBefore(Tail(a), Tail(b))
    ELSE CodeUnit(Head(a)) < CodeUnit(Head(b))

\* a.localeCompare(b) < 0 for strings of letters: the letters decide, and
\* between strings of the same letters the first difference in case, lower
\* case first.
localeCompareBefore(a, b) ==
    \/ CodeUnitsBefore(toLowerCase(a), toLowerCase(b))
    \/ /\ toLowerCase(a) = toLowerCase(b)
       /\ CodeUnitsBefore(b, a)

\* Array.prototype.sort is stable: before holds the pairs of positions
\* <<j, k>> whose elements the comparison puts in that order.
StableSort(s, before) ==
    [i \in 1..Len(s) |->
        s[CHOOSE k \in 1..Len(s) :
              Cardinality({ j \in 1..Len(s) :
                              \/ <<j, k>> \in before
                              \/ <<k, j>> \notin before /\ j < k }) = i - 1]]

\* Array.prototype.sort() of strings, by the default comparison.
sort(s) ==
    StableSort(s, { p \in (1..Len(s)) \X (1..Len(s)) : CodeUnitsBefore(s[p[1]], s[p[2]]) })

\* Array.prototype.reverse
reverse(s) == [i \in 1..Len(s) |-> s[Len(s) + 1 - i]]

RECURSIVE ArrayFromSet(_)
\* Array.from of the Set the elements of s were added to, in order: each
\* value once, at the place of its first occurrence.
ArrayFromSet(s) ==
    IF s = <<>> THEN <<>>
    ELSE IF \E i \in 1..(Len(s) - 1) : s[i] = s[Len(s)]
         THEN ArrayFromSet(SubSeq(s, 1, Len(s) - 1))
         ELSE Append(ArrayFromSet(SubSeq(s, 1, Len(s) - 1)), s[Len(s)])

\* A number of at most `width` digits, padded with zeros.
RECURSIVE PadStart(_, _)
PadStart(n, width) ==
    IF width = 0 THEN ""
    ELSE PadStart(n \div 10, width - 1) \o charAt(Digits, (n % 10) + 1)

\* format(date, "yyyy-MM-dd") of date-fns.
format(date) ==
    PadStart(date.year, 4) \o "-" \o PadStart(date.month, 2) \o "-" \o PadStart(date.day, 2)

(* --------------------------- the Aggregator --------------------------- *)

\* A state variable of type Date | undefined that holds no date.
undefined == {}

\* A state variable of type Date | undefined that holds the date d.
Selected(d) == {d}

DateIn(v) == CHOOSE d \in v : TRUE

\* The filter state of the page as useState initializes it.
NoFilters ==
    [filterDate |-> undefined, filterType |-> "all", filterMonth |-> "",
     filterYear |-> "", searchName |-> "",
     statsFilterMonth |-> "all", statsFilterYear |-> "all", statsFilterType |-> "all"]

\* record.names.some(...) with every name taken as matching.
matchesNameAlways(record, f) == TRUE

\* matchesName of filteredRecords.
matchesName(record, f) ==
    \/ f.searchName = ""
    \/ \E k \in 1..Len(record.names) :
           includes(toLowerCase(record.names[k]), toLowerCase(f.searchName))

\* The predicate of records.filter in filteredRecords.
matchesFilter(record, f) ==
    /\ f.filterDate = undefined \/ record.date = format(DateIn(f.filterDate))
    /\ f.filterType = "all" \/ record.type = f.filterType
    /\ f.filterMonth = "" \/ startsWith(record.date, f.filterMonth)
    /\ f.filterYear = "" \/ startsWith(record.date, f.filterYear)
    /\ matchesName(record, f)

filteredRecords(recs, f) == SelectSeq(recs, LAMBDA record : matchesFilter(record, f))

\* The predicate of records.filter in statistics.
matchesStatsFilter(record, f) ==
    /\ f.statsFilterType = "all" \/ record.type = f.statsFilterType
    /\ f.statsFilterMonth = "all" \/ startsWith(record.date, f.statsFilterMonth)
    /\ f.statsFilterYear = "all" \/ startsWith(record.date, f.statsFilterYear)

\* The entry statsMap.set creates for a name.
NewStatistics(name) ==
    [name |-> name, overtimeCount |-> 0, leaveCount |-> 0,
     overtimeDays |-> 0, leaveDays |-> 0]

\* dayValue with every duration counted as a whole day.
dayValueWhole(record) == 2

\* dayValue, in half days: 2 stands for 1, 1 for 0.5 (sums of halves are
\* exact in floating point, so overtimeDays and leaveDays are held doubled).
dayValue(record) == IF record.duration = "full" THEN 2 ELSE 1

\* One round of record.names.forEach: statsMap is the Map, as the sequence
\* of its values in insertion order.
CountName(statsMap, name, record) ==
    LET m == IF \E i \in 1..Len(statsMap) : statsMap[i].name = name
             THEN statsMap
             ELSE Append(statsMap, NewStatistics(name))
        k == CHOOSE i \in 1..Len(m) : m[i].name = name
    IN  [m EXCEPT ![k] =
            IF record.type = "overtime"
            THEN [@ EXCEPT !.overtimeCount = @ + 1,
                           !.overtimeDays = @ + dayValue(record)]
            ELSE [@ EXCEPT !.leaveCount = @ + 1,
                           !.leaveDays = @ + dayValue(record)]]

RECURSIVE CountNames(_, _, _)
\* record.names.forEach, from the name at position k on.
CountNames(statsMap, record, k) ==
    IF k > Len(record.names) THEN statsMap
    ELSE CountNames(CountName(statsMap, record.names[k], record), record, k + 1)

RECURSIVE CountRecords(_, _)
\* statsFilteredRecords.forEach
CountRecords(statsMap, recs) ==
    IF recs = <<>> THEN statsMap
    ELSE CountRecords(CountNames(statsMap, Head(recs), 1), Tail(recs))

NameBefore(a, b) == localeCompareBefore(a.name, b.name)

\* sort((a, b) => a.name.localeCompare(b.name))
sortByName(s) ==
    StableSort(s, { p \in (1..Len(s)) \X (1..Len(s)) : NameBefore(s[p[1]], s[p[2]]) })

\* statistics: the values of the Map, sorted by name.
statistics(recs, f) ==
    sortByName(CountRecords(<<>>, SelectSeq(recs,
                                            LAMBDA record : matchesStatsFilter(record, f))))

\* availableYears without the reverse(): ascending.
availableYearsAscending(recs) ==
    sort(ArrayFromSet([i \in 1..Len(recs) |-> substring(recs[i].date, 4)]))

availableYears(recs) ==
    reverse(sort(ArrayFromSet([i \in 1..Len(recs) |-> substring(recs[i].date, 4)])))

\* The records availableMonths adds the month of.
InSelectedYear(recs, f) ==
    SelectSeq(recs, LAMBDA record : f.filterYear = "" \/ startsWith(record.date, f.filterYear))

availableMonths(recs, f) ==
    reverse(sort(ArrayFromSet([i \in 1..Len(InSelectedYear(recs, f)) |->
                                  substring(InSelectedYear(recs, f)[i].date, 7)])))

\* What a render of the page computes from its state.
Render(recs, f) ==
    [filteredRecords |-> filteredRecords(recs, f),
     statistics |-> statistics(recs, f),
     availableYears |-> availableYears(recs),
     availableMonths |-> availableMonths(recs, f)]

(* ---------------------------- state ----------------------------------- *)

VARIABLES
    useSQLite,  \* StorageService.useSQLite: TRUE = durable mode
    now,        \* the clock
    local,      \* localStorage["attendance-records"], parsed
    db,         \* rows of the SQLite table records
    nextId,     \* the table's AUTOINCREMENT sequence
    op,         \* the Store operation in flight
    last,       \* the last completed operation, as its caller saw it
    records,    \* the page: the record collection held in memory
    loading,    \* the page: the loading flag
    filters,    \* the page: filterDate .. searchName, statsFilterMonth ..
    shown,      \* the page: what the last render computed
    calls,      \* the page: its handlers suspended at an await
    alerted,    \* the page: the last alert() shown
    mounted     \* the page: the mount effects have run

\* The state of the page component.
page == <<records, loading, filters, shown, calls, alerted, mounted>>

vars == <<useSQLite, now, local, db, nextId, op, last, page>>

Idle == [pc |-> "idle"]

NoOp == [kind |-> "none"]

(* ------------------------ ephemeral backend --------------------------- *)

\* getLocalRecords: every stored record, with the decode-time defaults.
getLocalRecords(stored, t) ==
    [i \in 1..Len(stored) |->
        [id |-> stored[i].id,
         names |-> stored[i].names,
         date |-> stored[i].date,
         type |-> stored[i].type,
         duration |-> IF Has(stored[i], "duration") THEN stored[i].duration ELSE "full",
         created_at |-> IF Has(stored[i], "created_at") THEN stored[i].created_at ELSE t]]

\* The record saveLocalRecord builds: id = Date.now(), the draft's fields,
\* created_at = the draft's stamp or the current time.
NewLocalRecord(draft, t) ==
    [id |-> DateNow(t),
     names |-> draft.names,
     date |-> draft.date,
     type |-> draft.type,
     duration |-> draft.duration,
     created_at |-> IF Has(draft, "created_at") THEN draft.created_at ELSE t]

\* saveLocalRecord with the new record left out of the collection written.
saveLocalRecordLost(stored, draft, t) == getLocalRecords(stored, t)

\* saveLocalRecord: the new collection written to localStorage.
saveLocalRecord(stored, draft, t) ==
    <<NewLocalRecord(draft, t)>> \o getLocalRecords(stored, t)

\* deleteLocalRecord with the filter inverted: the records kept are those
\* with the id.
deleteLocalRecordInverted(stored, id, t) ==
    SelectSeq(getLocalRecords(stored, t), LAMBDA r : r.id = id)

\* deleteLocalRecord: the new collection written to localStorage.
deleteLocalRecord(stored, id, t) ==
    SelectSeq(getLocalRecords(stored, t), LAMBDA r : r.id # id)

(* ------------------------- durable backend ---------------------------- *)

CurrentTimestamp(t) == t \div TicksPerSecond

\* One row as getAllRecords / getRecordById return it.
RowToRecord(row) ==
    [id |-> row.id,
     names |-> JSONParse(row.names),
     date |-> row.date,
     type |-> row.type,
     duration |-> row.duration,
     created_at |-> row.created_at]

\* The row INSERT writes: names serialized, created_at by default.
NewRow(id, draft, t) ==
    [id |-> id,
     names |-> JSONStringify(draft.names),
     date |-> draft.date,
     type |-> draft.type,
     duration |-> draft.duration,
     created_at |-> CurrentTimestamp(t)]

IsPermutation(s, S) ==
    /\ Len(s) = Cardinality(S)
    /\ { s[i] : i \in 1..Len(s) } = S

\* SELECT * ... ORDER BY created_at DESC: every order of the rows that is
\* descending in created_at (the order of equal stamps is not specified).
getAllRecords(rows) ==
    { s \in [1..Cardinality(rows) -> { RowToRecord(r) : r \in rows }] :
        /\ IsPermutation(s, { RowToRecord(r) : r \in rows })
        /\ \A i, j \in 1..Len(s) : i < j => s[i].created_at >= s[j].created_at }

\* DELETE FROM records WHERE id = ?
SQLiteDeleteRecord(rows, id) == { r \in rows : r.id # id }

(* ------------------------- completed operations ----------------------- *)

\* What the caller of a Store operation observed: the operation and its
\* argument, the mode it ran in, whether it returned or threw, the requests
\* it issued to the durable backend, its executions on the ephemeral one and
\* whether that execution threw, the status of the durable attempt, and the
\* value returned.
Obs(kind, mode, arg, outcome, durTries, ephTries, ephFailed, status, result) ==
    [kind |-> kind, mode |-> mode, arg |-> arg, outcome |-> outcome,
     durTries |-> durTries, ephTries |-> ephTries, ephFailed |-> ephFailed,
     status |-> status, result |-> result]

\* The ids each backend holds.
HeldIds == [local |-> IdsOf(local), db |-> IdsOfSet(db)]

Complete(o) == last' = o

\* The page as useState initializes it, before its effects have run.
PageInit ==
    /\ records = <<>>
    /\ loading = FALSE
    /\ filters = NoFilters
    /\ shown = Render(<<>>, NoFilters)
    /\ calls = <<>>
    /\ alerted = "none"
    /\ mounted = FALSE

Init ==
    /\ useSQLite = FALSE
    /\ now = 1
    /\ local \in { <<>>, <<LegacyRecord>> }
    /\ db = {}
    /\ nextId = 1
    /\ op = Idle
    /\ last = NoOp
    /\ PageInit

\* Time passes.
Tick ==
    /\ now < MaxNow
    /\ now' = now + 1
    /\ UNCHANGED <<useSQLite, local, db, nextId, op, last, page>>

(* ----------------------- the Store: getRecords ------------------------ *)

\* A request of the Store to /api/records, not yet handled.
Request(kind, arg) ==
    [pc |-> "req", kind |-> kind, arg |-> arg, status |-> "pending",
     body |-> "none", tries |-> 1, held |-> HeldIds]

\* The response of the route handler to the request in flight.
Respond(status, body) == [op EXCEPT !.pc = "resp", !.status = status, !.body = body]

\* getRecords merging the ephemeral collection into the fetched records.
FetchedRecordsMerged(body, t) == body \o getLocalRecords(local, t)

\* records.map(...) of getRecords: created_at defaulted to the current time.
FetchedRecords(body, t) ==
    [i \in 1..Len(body) |->
        IF Has(body[i], "created_at") THEN body[i]
        ELSE [id |-> body[i].id, names |-> body[i].names, date |-> body[i].date,
              type |-> body[i].type, duration |-> body[i].duration, created_at |-> t]]

\* The ephemeral execution of a list: getLocalRecords, which may throw.
getRecordsOnLocal(mode, durTries, status) ==
    \E fault \in BOOLEAN :
        Complete(Obs("list", mode, "none", IF fault THEN "error" ELSE "ok", durTries, 1,
                     fault, status, IF fault THEN <<>> ELSE getLocalRecords(local, now)))

\* getRecords in ephemeral mode.
getRecordsLocal ==
    /\ getRecordsOnLocal(FALSE, 0, "none")
    /\ UNCHANGED <<now, local, db, nextId, op, page>>

\* getRecords in durable mode, up to the await of fetch.
getRecordsFetch ==
    /\ op' = Request("list", "none")
    /\ UNCHANGED <<now, local, db, nextId, last, page>>

\* getRecords as called with the Store in mode m.
getRecords(m) == IF m THEN getRecordsFetch ELSE getRecordsLocal

\* loadRecords of the mount effect: list() in the current mode.
LoadRecords ==
    /\ op = Idle
    /\ getRecords(useSQLite)
    /\ UNCHANGED useSQLite

\* A mode switch that moves the ephemeral collection into the table.
SetStorageModeMigrates(m) ==
    /\ op = Idle
    /\ useSQLite' = m
    /\ local' = <<>>
    /\ db' = db \cup { NewRow(nextId, local[i], now) : i \in 1..Len(local) }
    /\ nextId' = nextId + 1
    /\ UNCHANGED <<now, op, last, page>>

\* The effect on useSQLite: setStorageMode, then loadRecords.
SetStorageMode(m) ==
    /\ op = Idle
    /\ useSQLite' = m
    /\ getRecords(m)

\* getRecords without the catch branch: a failed durable attempt is thrown
\* to the caller.
getRecordsSettleThrows ==
    /\ op.pc = "resp"
    /\ op.kind = "list"
    /\ IF op.status = "200"
       THEN Complete(Obs("list", TRUE, "none", "ok", op.tries, 0, FALSE, op.status,
                         FetchedRecords(op.body, now)))
       ELSE Complete(Obs("list", TRUE, "none", "error", op.tries, 0, FALSE, op.status,
                         <<>>))
    /\ op' = Idle
    /\ UNCHANGED <<useSQLite, now, local, db, nextId, page>>

\* getRecords after the await: the response mapped, or the catch branch.
getRecordsSettle ==
    /\ op.pc = "resp"
    /\ op.kind = "list"
    /\ IF op.status = "200"
       THEN Complete(Obs("list", TRUE, "none", "ok", op.tries, 0, FALSE, op.status,
                         FetchedRecords(op.body, now)))
       ELSE getRecordsOnLocal(TRUE, op.tries, op.status)
    /\ op' = Idle
    /\ UNCHANGED <<useSQLite, now, local, db, nextId, page>>

(* ----------------------- the Store: saveRecord ------------------------ *)

\* The draft addRecord passes to saveRecord.
Draft(fields, t) ==
    [names |-> fields.names, date |-> fields.date, type |-> fields.type,
     duration |-> fields.duration, created_at |-> t]

\* The ephemeral execution of a create: saveLocalRecord, which may throw
\* before anything is written.
saveRecordOnLocal(draft, mode, durTries, status) ==
    \E fault \in BOOLEAN :
        /\ local' = IF fault THEN local ELSE saveLocalRecord(local, draft, now)
        /\ Complete(Obs("create", mode, draft, IF fault THEN "error" ELSE "ok", durTries, 1,
                        fault, status,
                        IF fault THEN "none" ELSE NewLocalRecord(draft, now)))

\* saveRecord in ephemeral mode.
saveRecordLocal(fields) ==
    /\ op = Idle
    /\ ~useSQLite
    /\ Len(local) < MaxLocal
    /\ saveRecordOnLocal(Draft(fields, now), FALSE, 0, "none")
    /\ UNCHANGED <<useSQLite, now, db, nextId, op, page>>

\* saveRecord in durable mode, up to the await of fetch.
saveRecordFetch(fields) ==
    /\ op = Idle
    /\ useSQLite
    /\ Len(local) < MaxLocal
    /\ nextId <= MaxDbId
    /\ op' = Request("create", Draft(fields, now))
    /\ UNCHANGED <<useSQLite, now, local, db, nextId, last, page>>

\* saveRecord after the await: the saved record, or the catch branch.
saveRecordSettle ==
    /\ op.pc = "resp"
    /\ op.kind = "create"
    /\ IF op.status = "201"
       THEN /\ Complete(Obs("create", TRUE, op.arg, "ok", op.tries, 0, FALSE, op.status,
                            op.body))
            /\ UNCHANGED local
       ELSE saveRecordOnLocal(op.arg, TRUE, op.tries, op.status)
    /\ op' = Idle
    /\ UNCHANGED <<useSQLite, now, db, nextId, page>>

(* ----------------------- the Store: deleteRecord ---------------------- *)

\* The ephemeral execution of a delete: deleteLocalRecord, which may throw
\* before anything is written.
deleteRecordOnLocal(id, mode, durTries, status) ==
    \E fault \in BOOLEAN :
        /\ local' = IF fault THEN local ELSE deleteLocalRecord(local, id, now)
        /\ Complete(Obs("delete", mode, id, IF fault THEN "error" ELSE "ok", durTries, 1,
                        fault, status, "none"))

\* The ids a caller may ask to delete.
DeleteTargets == IdsOf(local) \cup IdsOfSet(db) \cup {UnknownId}

\* deleteRecord in ephemeral mode.
deleteRecordLocal(id) ==
    /\ op = Idle
    /\ ~useSQLite
    /\ deleteRecordOnLocal(id, FALSE, 0, "none")
    /\ UNCHANGED <<useSQLite, now, db, nextId, op, page>>

\* deleteRecord in durable mode, up to the await of fetch.
deleteRecordFetch(id) ==
    /\ op = Idle
    /\ useSQLite
    /\ op' = Request("delete", id)
    /\ UNCHANGED <<useSQLite, now, local, db, nextId, last, page>>

\* deleteRecord writing through: the ephemeral delete is executed after a
\* successful durable one as well.
deleteRecordSettleWriteThrough ==
    /\ op.pc = "resp"
    /\ op.kind = "delete"
    /\ deleteRecordOnLocal(op.arg, TRUE, op.tries, op.status)
    /\ op' = Idle
    /\ UNCHANGED <<useSQLite, now, db, nextId, page>>

\* deleteRecord after the await: done, or the catch branch.
deleteRecordSettle ==
    /\ op.pc = "resp"
    /\ op.kind = "delete"
    /\ IF op.status = "200"
       THEN /\ Complete(Obs("delete", TRUE, op.arg, "ok", op.tries, 0, FALSE, op.status,
                            "none"))
            /\ UNCHANGED local
       ELSE deleteRecordOnLocal(op.arg, TRUE, op.tries, op.status)
    /\ op' = Idle
    /\ UNCHANGED <<useSQLite, now, db, nextId, page>>

(* ----------------------- the route handlers --------------------------- *)

\* GET /api/records: getAllRecords.
GET ==
    /\ op.pc = "req"
    /\ op.kind = "list"
    /\ \E rows \in getAllRecords(db) : op' = Respond("200", rows)
    /\ UNCHANGED <<useSQLite, now, local, db, nextId, last, page>>

\* POST /api/records: createRecord inserts the row and reads it back.
POST ==
    /\ op.pc = "req"
    /\ op.kind = "create"
    /\ db' = db \cup {NewRow(nextId, op.arg, now)}
    /\ nextId' = nextId + 1
    /\ op' = Respond("201", RowToRecord(NewRow(nextId, op.arg, now)))
    /\ UNCHANGED <<useSQLite, now, local, last, page>>

\* DELETE /api/records?id=: 404 when no row was deleted.
DELETE ==
    /\ op.pc = "req"
    /\ op.kind = "delete"
    /\ db' = SQLiteDeleteRecord(db, op.arg)
    /\ op' = Respond(IF op.arg \in IdsOfSet(db) THEN "200" ELSE "404", "none")
    /\ UNCHANGED <<useSQLite, now, local, nextId, last, page>>

\* The catch branch of a handler: the database call threw, status 500.
ServerError ==
    /\ op.pc = "req"
    /\ op' = Respond("500", "none")
    /\ UNCHANGED <<useSQLite, now, local, db, nextId, last, page>>

\* fetch rejects: the request never arrived, or the response of a handled
\* request was lost.
TransportFailure ==
    /\ \/ op.pc = "req"
       \/ op.pc = "resp" /\ op.status \in {"200", "201"}
    /\ op' = Respond("neterr", "none")
    /\ UNCHANGED <<useSQLite, now, local, db, nextId, last, page>>

Next ==
    \/ Tick
    \/ LoadRecords
    \/ \E m \in BOOLEAN : SetStorageMode(m)
    \/ getRecordsSettle
    \/ \E fields \in DraftFields : saveRecordLocal(fields)
    \/ \E fields \in DraftFields : saveRecordFetch(fields)
    \/ saveRecordSettle
    \/ \E id \in DeleteTargets : deleteRecordLocal(id)
    \/ \E id \in DeleteTargets : deleteRecordFetch(id)
    \/ deleteRecordSettle
    \/ GET
    \/ POST
    \/ DELETE
    \/ ServerError
    \/ TransportFailure

Spec == Init /\ [][Next]_vars

(* ----------------- the page: filters and derived views ---------------- *)

\* Largest number of records in the collection given to the Aggregator.
MaxRecords == 2

\* Records as list() returns them: two rows of the table, the legacy record
\* with its defaults, and a record of the ephemeral collection that names
\* one person twice.
ListedRecords ==
    { RowToRecord(NewRow(nextId, d, now)) : d \in DraftFields }
    \cup { getLocalRecords(<<LegacyRecord>>, now)[1] }
    \cup { NewLocalRecord([names |-> parseNames("ab ab"), date |-> "2024-01-20",
                           type |-> "overtime", duration |-> "afternoon"], now) }

\* The collections of at most MaxRecords records, no two of them the same
\* record.
Collections ==
    UNION { { s \in [1..n -> ListedRecords] : \A i, j \in 1..n : i # j => s[i] # s[j] } :
            n \in 0..MaxRecords }

\* The dates picked in the calendar of the records view.
FilterDates == { [year |-> 2024, month |-> 1, day |-> 5] }

\* The texts typed into the name search.
SearchTexts == { "", "a", "B" }

Types == { "all", "overtime", "leave" }

Range(s) == { s[i] : i \in 1..Len(s) }

\* A setter of a filter state variable, and the render it causes.
SetFilters(f) ==
    /\ filters' = f
    /\ shown' = Render(records, f)
    /\ UNCHANGED <<useSQLite, now, local, db, nextId, op, last>>
    /\ UNCHANGED <<records, loading, calls, alerted, mounted>>

setFilterDate(v) == SetFilters([filters EXCEPT !.filterDate = v])

setFilterType(v) == SetFilters([filters EXCEPT !.filterType = v])

\* The month Select offers "all" and the available months.
setFilterMonth(v) ==
    /\ v \in {"all"} \cup Range(shown.availableMonths)
    /\ SetFilters([filters EXCEPT !.filterMonth = v])

\* The year Select offers "all" and the available years.
setFilterYear(v) ==
    /\ v \in {"all"} \cup Range(shown.availableYears)
    /\ SetFilters([filters EXCEPT !.filterYear = v])

setSearchName(v) == SetFilters([filters EXCEPT !.searchName = v])

\* The button that clears the filters of the records view.
ClearFilters ==
    SetFilters([filters EXCEPT !.filterDate = undefined, !.filterType = "all",
                               !.filterMonth = "", !.filterYear = "",
                               !.searchName = ""])

setStatsFilterYear(v) ==
    /\ v \in {"all"} \cup Range(shown.availableYears)
    /\ SetFilters([filters EXCEPT !.statsFilterYear = v])

setStatsFilterMonth(v) ==
    /\ v \in {"all"} \cup Range(shown.availableMonths)
    /\ SetFilters([filters EXCEPT !.statsFilterMonth = v])

setStatsFilterType(v) == SetFilters([filters EXCEPT !.statsFilterType = v])

\* The button that clears the filters of the statistics.
ClearStatsFilters ==
    SetFilters([filters EXCEPT !.statsFilterMonth = "all", !.statsFilterYear = "all",
                               !.statsFilterType = "all"])

\* The year and month prefixes a Select can hold.
Prefixes ==
    {"all"} \cup { substring(r.date, 4) : r \in ListedRecords }
            \cup { substring(r.date, 7) : r \in ListedRecords }

\* The page showing a collection of records, its filters not yet touched.
InitView ==
    /\ useSQLite = FALSE
    /\ now = 1
    /\ local = <<>>
    /\ db = {}
    /\ nextId = 1
    /\ op = Idle
    /\ last = NoOp
    /\ records \in Collections
    /\ loading = FALSE
    /\ filters = NoFilters
    /\ shown = Render(records, NoFilters)
    /\ calls = <<>>
    /\ alerted = "none"
    /\ mounted = TRUE

NextView ==
    \/ \E v \in {undefined} \cup { Selected(d) : d \in FilterDates } : setFilterDate(v)
    \/ \E v \in Types : setFilterType(v)
    \/ \E v \in Prefixes : setFilterMonth(v)
    \/ \E v \in Prefixes : setFilterYear(v)
    \/ \E v \in SearchTexts : setSearchName(v)
    \/ ClearFilters

\* The records view: a collection of records under the filters of the view.
SpecView == InitView /\ [][NextView]_vars

NextStats ==
    \/ \E v \in Prefixes : setStatsFilterYear(v)
    \/ \E v \in Prefixes : setStatsFilterMonth(v)
    \/ \E v \in Types : setStatsFilterType(v)
    \/ ClearStatsFilters

\* The statistics: a collection of records under the statistics filters.
SpecStats == InitView /\ [][NextStats]_vars

(* ------------------- the page: loading and editing -------------------- *)

\* Largest number of handlers of the page suspended at an await.
MaxCalls == 2

\* Largest number of rows the requests of the page insert into the table; a
\* request to insert one more fails.
MaxInserts == 1

\* The texts typed into the name input.  The form is an input of addRecord:
\* the user can retype it before every click.
NameInputs == { "", " \n", "A  b\n" }

\* The selectedDate of the form: no date, or the date picked in the calendar.
FormDates == { undefined, Selected([year |-> 2024, month |-> 1, day |-> 5]) }

\* The tab of the form in use: addRecord("overtime").
FormTypes == { "overtime" }

\* A handler suspended at the await of its fetch, the request not yet
\* handled: what it asks for (kind, and the record of an add or the id of a
\* delete), and what the fetch will give it: response.ok and the body.
Call(what) ==
    [kind |-> what.kind, pc |-> "req", ok |-> FALSE, body |-> <<>>, what |-> what]

\* The fetch of the call at position i settles: with a response whose ok is
\* TRUE (status 200 or 201) or FALSE (404, 500), or rejected (ok FALSE here
\* too: the Store's catch branch runs in both cases).
Answer(i, ok, body) ==
    [calls EXCEPT ![i] = [@ EXCEPT !.pc = "resp", !.ok = ok, !.body = body]]

Without(s, i) == SubSeq(s, 1, i - 1) \o SubSeq(s, i + 1, Len(s))

\* The addRecord handlers suspended: each may yet write to localStorage.
SuspendedAdds == { i \in 1..Len(calls) : calls[i].kind = "add" }

\* setRecords and the render it causes.
SetRecords(recs) ==
    /\ records' = recs
    /\ shown' = Render(recs, filters)

\* The alert a step opens; "none" when it opens none.
Alert(message) == alerted' = message

\* Time passes.
Clock ==
    /\ now < MaxNow
    /\ now' = now + 1
    /\ Alert("none")
    /\ UNCHANGED <<useSQLite, local, db, nextId, op, last>>
    /\ UNCHANGED <<records, loading, filters, shown, calls, mounted>>

\* The two effects of the first render: loadRecords(), then
\* setStorageMode(false) and loadRecords().  The Store is in ephemeral mode:
\* each getRecords reads localStorage before it suspends, and the second
\* setRecords is the one that stays.
MountEffects ==
    /\ ~mounted
    /\ mounted' = TRUE
    /\ \E first, second \in BOOLEAN :
           SetRecords(IF first \/ second THEN getLocalRecords(local, now) ELSE records)
    /\ loading' = FALSE
    /\ Alert("none")
    /\ UNCHANGED <<useSQLite, now, local, db, nextId, op, last>>
    /\ UNCHANGED <<filters, calls>>

\* loadRecords with the Store in mode m, up to its first await: in durable
\* mode the fetch is issued; in ephemeral mode getLocalRecords has run, and
\* what follows the await runs before any other handler.
loadRecords(m) ==
    /\ IF m
       THEN /\ Len(calls) < MaxCalls
            /\ calls' = Append(calls, Call([kind |-> "load"]))
            /\ loading' = TRUE
            /\ UNCHANGED <<records, shown>>
       ELSE /\ \E fault \in BOOLEAN :
                   SetRecords(IF fault THEN records ELSE getLocalRecords(local, now))
            /\ loading' = FALSE
            /\ UNCHANGED calls
    /\ Alert("none")
    /\ UNCHANGED <<now, local, db, nextId, op, last>>
    /\ UNCHANGED <<filters, mounted>>

\* The Switch without the effect on useSQLite.
onCheckedChangeNoRefresh ==
    /\ mounted
    /\ ~loading
    /\ useSQLite' = ~useSQLite
    /\ Alert("none")
    /\ UNCHANGED <<now, local, db, nextId, op, last>>
    /\ UNCHANGED <<records, loading, filters, shown, calls, mounted>>

\* The Switch, enabled while loading is false: setUseSQLite, and the effect
\* on useSQLite: setStorageMode, loadRecords.
onCheckedChange ==
    /\ mounted
    /\ ~loading
    /\ useSQLite' = ~useSQLite
    /\ loadRecords(~useSQLite)

\* The first test of addRecord passes: nameInput.trim() and selectedDate.
ValidForm(nameInput, selectedDate) == trim(nameInput) # "" /\ selectedDate # undefined

\* The record addRecord passes to saveRecord; duration holds its first value.
FormDraft(type, nameInput, selectedDate) ==
    [names |-> parseNames(nameInput),
     date |-> format(DateIn(selectedDate)),
     type |-> type,
     duration |-> "full",
     created_at |-> now]

\* addRecord after the await, saveRecord having returned.
addRecordDone(newRecord) ==
    /\ SetRecords(<<newRecord>> \o records)
    /\ Alert("none")

\* The catch branch of addRecord with the record shown all the same.
addRecordFailedShown(draft) ==
    /\ Alert("saveFailed")
    /\ SetRecords(<<NewLocalRecord(draft, now)>> \o records)

\* The catch branch of addRecord: saveRecord has thrown.
addRecordFailed(draft) ==
    /\ Alert("saveFailed")
    /\ UNCHANGED <<records, shown>>

\* saveLocalRecord as run by saveRecord, which may throw before anything is
\* written, and addRecord after the await.
saveOnLocal(draft) ==
    \E fault \in BOOLEAN :
        IF fault
        THEN /\ local' = local
             /\ addRecordFailed(draft)
        ELSE /\ local' = saveLocalRecord(local, draft, now)
             /\ addRecordDone(NewLocalRecord(draft, now))

\* addRecord (the save button, or Ctrl+Enter in the name input), up to its
\* first await, with the form holding nameInput and selectedDate.
addRecord(type, nameInput, selectedDate) ==
    /\ mounted
    /\ IF ~ValidForm(nameInput, selectedDate)
       THEN /\ Alert("validation")
            /\ UNCHANGED <<local, records, loading, shown, calls>>
       ELSE IF Len(parseNames(nameInput)) = 0
       THEN /\ Alert("names")
            /\ UNCHANGED <<local, records, loading, shown, calls>>
       ELSE IF useSQLite
       THEN /\ Len(calls) < MaxCalls
            /\ Len(local) + Cardinality(SuspendedAdds) < MaxLocal
            /\ calls' = Append(calls, Call([kind |-> "add",
                                            record |-> FormDraft(type, nameInput, selectedDate)]))
            /\ loading' = TRUE
            /\ Alert("none")
            /\ UNCHANGED <<local, records, shown>>
       ELSE /\ Len(local) < MaxLocal
            /\ saveOnLocal(FormDraft(type, nameInput, selectedDate))
            /\ loading' = FALSE
            /\ UNCHANGED calls
    /\ UNCHANGED <<useSQLite, now, db, nextId, op, last>>
    /\ UNCHANGED <<filters, mounted>>

\* deleteRecord after the await, the Store's deleteRecord having returned.
deleteRecordDone(id) ==
    /\ SetRecords(SelectSeq(records, LAMBDA r : r.id # id))
    /\ Alert("none")

\* The catch branch of deleteRecord: the Store's deleteRecord has thrown.
deleteRecordFailed ==
    /\ Alert("deleteFailed")
    /\ UNCHANGED <<records, shown>>

\* deleteLocalRecord as run by the Store's deleteRecord, which may throw
\* before anything is written, and deleteRecord after the await.
deleteOnLocal(id) ==
    \E fault \in BOOLEAN :
        IF fault
        THEN /\ local' = local
             /\ deleteRecordFailed
        ELSE /\ local' = deleteLocalRecord(local, id, now)
             /\ deleteRecordDone(id)

\* deleteRecord (the button of a row of the records view, enabled while
\* loading is false), up to its first await.
deleteRecord(record) ==
    /\ mounted
    /\ ~loading
    /\ record \in Range(shown.filteredRecords)
    /\ record.id # 0
    /\ IF useSQLite
       THEN /\ Len(calls) < MaxCalls
            /\ calls' = Append(calls, Call([kind |-> "delete", id |-> record.id]))
            /\ loading' = TRUE
            /\ Alert("none")
            /\ UNCHANGED <<local, records, shown>>
       ELSE /\ deleteOnLocal(record.id)
            /\ loading' = FALSE
            /\ UNCHANGED calls
    /\ UNCHANGED <<useSQLite, now, db, nextId, op, last>>
    /\ UNCHANGED <<filters, mounted>>

\* A handler that ends without its finally: loading stays as it is.
ResumesKeepsLoading(i, kind) ==
    /\ i \in 1..Len(calls)
    /\ calls[i].pc = "resp"
    /\ calls[i].kind = kind
    /\ calls' = Without(calls, i)
    /\ loading' = loading

\* The call at position i resumes after its await and runs to its end:
\* finally, setLoading(false).
Resumes(i, kind) ==
    /\ i \in 1..Len(calls)
    /\ calls[i].pc = "resp"
    /\ calls[i].kind = kind
    /\ calls' = Without(calls, i)
    /\ loading' = FALSE

\* loadRecords after the await: getRecords maps the response, or its catch
\* branch runs getLocalRecords; loadRecords shows what getRecords returned
\* and logs what it threw.
loadRecordsResume(i) ==
    /\ Resumes(i, "load")
    /\ IF calls[i].ok
       THEN SetRecords(FetchedRecords(calls[i].body, now))
       ELSE \E fault \in BOOLEAN :
                SetRecords(IF fault THEN records ELSE getLocalRecords(local, now))
    /\ Alert("none")
    /\ UNCHANGED <<useSQLite, now, local, db, nextId, op, last>>
    /\ UNCHANGED <<filters, mounted>>

\* addRecord after the await: saveRecord returns the saved record, or its
\* catch branch runs saveLocalRecord.
addRecordResume(i) ==
    /\ Resumes(i, "add")
    /\ IF calls[i].ok
       THEN /\ addRecordDone(calls[i].body[1])
            /\ UNCHANGED local
       ELSE saveOnLocal(calls[i].what.record)
    /\ UNCHANGED <<useSQLite, now, db, nextId, op, last>>
    /\ UNCHANGED <<filters, mounted>>

\* deleteRecord after the await: the Store's deleteRecord returns, or its
\* catch branch runs deleteLocalRecord.
deleteRecordResume(i) ==
    /\ Resumes(i, "delete")
    /\ IF calls[i].ok
       THEN /\ deleteRecordDone(calls[i].what.id)
            /\ UNCHANGED local
       ELSE deleteOnLocal(calls[i].what.id)
    /\ UNCHANGED <<useSQLite, now, db, nextId, op, last>>
    /\ UNCHANGED <<filters, mounted>>

\* The request of the call at position i reaches its route handler.
Handles(i, kind) ==
    /\ i \in 1..Len(calls)
    /\ calls[i].pc = "req"
    /\ calls[i].kind = kind
    /\ Alert("none")
    /\ UNCHANGED <<useSQLite, now, local, op, last>>
    /\ UNCHANGED <<records, loading, filters, shown, mounted>>

\* GET /api/records for the call at position i.
HandleGET(i) ==
    /\ Handles(i, "load")
    /\ \E rows \in getAllRecords(db) : calls' = Answer(i, TRUE, rows)
    /\ UNCHANGED <<db, nextId>>

\* POST /api/records for the call at position i.
HandlePOST(i) ==
    /\ Handles(i, "add")
    /\ nextId <= MaxInserts
    /\ db' = db \cup {NewRow(nextId, calls[i].what.record, now)}
    /\ nextId' = nextId + 1
    /\ calls' = Answer(i, TRUE, <<RowToRecord(NewRow(nextId, calls[i].what.record, now))>>)

\* DELETE /api/records?id= for the call at position i.
HandleDELETE(i) ==
    /\ Handles(i, "delete")
    /\ db' = SQLiteDeleteRecord(db, calls[i].what.id)
    /\ calls' = Answer(i, calls[i].what.id \in IdsOfSet(db), <<>>)
    /\ UNCHANGED nextId

\* The catch branch of the handler of the call at position i: status 500.
HandleError(i) ==
    /\ Handles(i, calls[i].kind)
    /\ calls' = Answer(i, FALSE, <<>>)
    /\ UNCHANGED <<db, nextId>>

\* The fetch of the call at position i rejects: the request never arrived,
\* or the response of the handled request was lost.
FetchRejects(i) ==
    /\ i \in 1..Len(calls)
    /\ \/ calls[i].pc = "req"
       \/ calls[i].pc = "resp" /\ calls[i].ok
    /\ calls' = Answer(i, FALSE, <<>>)
    /\ Alert("none")
    /\ UNCHANGED <<useSQLite, now, local, db, nextId, op, last>>
    /\ UNCHANGED <<records, loading, filters, shown, mounted>>

NextUI ==
    \/ Clock
    \/ MountEffects
    \/ onCheckedChange
    \/ \E type \in FormTypes, nameInput \in NameInputs, selectedDate \in FormDates :
           addRecord(type, nameInput, selectedDate)
    \/ \E record \in Range(records) : deleteRecord(record)
    \/ \E i \in 1..MaxCalls : loadRecordsResume(i)
    \/ \E i \in 1..MaxCalls : addRecordResume(i)
    \/ \E i \in 1..MaxCalls : deleteRecordResume(i)
    \/ \E i \in 1..MaxCalls : HandleGET(i)
    \/ \E i \in 1..MaxCalls : HandlePOST(i)
    \/ \E i \in 1..MaxCalls : HandleDELETE(i)
    \/ \E i \in 1..MaxCalls : HandleError(i)
    \/ \E i \in 1..MaxCalls : FetchRejects(i)

\* The page before its first effects, the ephemeral collection and the
\* table empty.
InitUI ==
    /\ useSQLite = FALSE
    /\ now = 1
    /\ local = <<>>
    /\ db = {}
    /\ nextId = 1
    /\ op = Idle
    /\ last = NoOp
    /\ PageInit

\* The page: its handlers over the Store and the two backends.
SpecUI == InitUI /\ [][NextUI]_vars

\* The fetch of the handler suspended at position i settles: its request is
\* handled, or fails.
RequestSettles(i) ==
    \/ HandleGET(i)
    \/ HandlePOST(i)
    \/ HandleDELETE(i)
    \/ HandleError(i)
    \/ i \in 1..Len(calls) /\ calls[i].pc = "req" /\ FetchRejects(i)

\* The handler suspended at position i, its fetch settled, runs on.
HandlerResumes(i) ==
    \/ loadRecordsResume(i)
    \/ addRecordResume(i)
    \/ deleteRecordResume(i)

NextLive ==
    \/ MountEffects
    \/ onCheckedChange
    \/ \E type \in FormTypes, nameInput \in NameInputs, selectedDate \in FormDates :
           addRecord(type, nameInput, selectedDate)
    \/ \E record \in Range(records) : deleteRecord(record)
    \/ \E i \in 1..MaxCalls : RequestSettles(i)
    \/ \E i \in 1..Len(calls) : calls[i].pc = "resp" /\ FetchRejects(i)
    \/ \E i \in 1..MaxCalls : HandlerResumes(i)

\* What HandlerResumes(i) does to the suspended handlers: the steps of
\* NextLive that satisfy it are those of HandlerResumes(i), and it is enabled
\* in the same states, those where the fetch of the call at i has settled.
HandlerEnds(i) ==
    /\ i \in 1..Len(calls)
    /\ calls[i].pc = "resp"
    /\ calls' = Without(calls, i)

\* The page within one tick of the clock, every request to the durable
\* backend settling in the end and every handler whose fetch has settled
\* being run by the event loop.
SpecLive ==
    /\ InitUI
    /\ [][NextLive]_vars
    /\ \A i \in 1..MaxCalls : WF_vars(RequestSettles(i)) /\ WF_calls(HandlerEnds(i))

(* ------------------------- reading the history ------------------------ *)

\* The record r carries the fields of draft d.
SameFields(r, d) ==
    /\ r.names = d.names
    /\ r.date = d.date
    /\ r.type = d.type
    /\ r.duration = d.duration

\* The positions of the list s that hold a record with this id.
WithId(s, id) == { i \in 1..Len(s) : s[i].id = id }

\* What list() shows of the ephemeral collection, the read-time stamp aside.
LocalView(stored) ==
    [i \in 1..Len(stored) |->
        [id |-> stored[i].id, names |-> stored[i].names, date |-> stored[i].date,
         type |-> stored[i].type,
         duration |-> IF Has(stored[i], "duration") THEN stored[i].duration ELSE "full"]]

\* The durable attempt of the completed operation o failed.
DurableFailed(o) == o.mode /\ o.status \notin {"200", "201"}

\* o is a create in durable mode whose durable attempt failed.
FallbackCreate(o) == o.kind = "create" /\ DurableFailed(o)

\* This step completes a list() that directly follows a completed operation
\* of the given kind, and both returned without error.
ListFollows(kind) ==
    /\ last.kind = kind
    /\ last.outcome = "ok"
    /\ last'.kind = "list"
    /\ last'.outcome = "ok"

\* This step is the last one of a durable-mode operation of the given kind.
Settles(kind) == op.pc = "resp" /\ op.kind = kind /\ op' = Idle

\* This step is a whole create, or the last step of one, that returned.
CreateReturns ==
    /\ last'.kind = "create"
    /\ last'.outcome = "ok"
    /\ \/ Settles("create")
       \/ op = Idle /\ op' = Idle /\ local' # local

\* This step is a whole delete, or the last step of one.
DeleteCompletes ==
    /\ last'.kind = "delete"
    /\ \/ Settles("delete")
       \/ op = Idle /\ op' = Idle /\ (last' # last \/ local' # local)

\* The ids held when the operation this step belongs to was started.
HeldBefore == IF op = Idle THEN HeldIds ELSE op.held

\* This step belongs to a list(): it starts one, is its route handler or a
\* failure of its request, or completes it.
ListStep ==
    \/ op # Idle /\ op.kind = "list"
    \/ op' # Idle /\ op'.kind = "list"
    \/ op = Idle /\ op' = Idle /\ last'.kind = "list" /\ last' # last

\* A record of the ephemeral collection written by a fallback: its id is a
\* later clock value than the stamp its draft was submitted with.
WrittenByFallback(r) == Has(r, "created_at") /\ DateNow(r.created_at) < r.id

(* ------------------------------ C1 ------------------------------------ *)

\* C1 as stated: after a create in durable mode whose durable attempt failed
\* and which returned, the next list() contains a record with the returned
\* id and the draft's fields, whether or not that list() reaches the durable
\* backend.
C1_FallbackCreateListedAlways ==
    [][ (FallbackCreate(last) /\ ListFollows("create"))
          => \E i \in WithId(last'.result, last.result.id) :
                 SameFields(last'.result[i], last.arg) ]_vars

\* C1 amended: when the durable attempt of a create fails and the ephemeral
\* write succeeds, create returns without error the record it put first in
\* the ephemeral collection, carrying the draft's fields; and the next list()
\* that is executed on the ephemeral backend contains a record with that id
\* and those fields.
C1_FallbackCreateListedLocally ==
    [][ /\ (FallbackCreate(last') /\ ~last'.ephFailed)
            => /\ last'.outcome = "ok"
               /\ last'.ephTries = 1
               /\ SameFields(last'.result, last'.arg)
               /\ \E i \in 1..Len(local') : local'[i] = last'.result
        /\ (FallbackCreate(last) /\ ListFollows("create") /\ last'.ephTries = 1)
            => \E i \in WithId(last'.result, last.result.id) :
                   SameFields(last'.result[i], last.arg) ]_vars

\* A list() executed on the ephemeral backend after a failed durable attempt
\* has returned a record that a fallback wrote.
C1_Witness ==
    /\ last.kind = "list"
    /\ last.outcome = "ok"
    /\ DurableFailed(last)
    /\ \E i \in 1..Len(last.result) : WrittenByFallback(last.result[i])

(* ------------------------------ C2 ------------------------------------ *)

\* C2: a completed list, create or delete threw to its caller exactly when
\* its execution on the ephemeral backend threw; an operation whose durable
\* attempt failed and whose ephemeral execution did not throw returned.
C2_ErrorIffEphemeralFails ==
    last.kind # "none" =>
        /\ last.outcome = "error" <=> last.ephFailed
        /\ last.ephFailed => last.ephTries = 1
        /\ (DurableFailed(last) /\ ~last.ephFailed) => last.outcome = "ok"

\* An operation whose durable attempt failed has returned without error.
C2_Witness ==
    /\ last.kind # "none"
    /\ DurableFailed(last)
    /\ last.ephTries = 1
    /\ last.outcome = "ok"

(* ------------------------------ C3 ------------------------------------ *)

\* C3 as stated: a create that returns hands out an id no record held when
\* the create was started, with the draft's fields; and the list() that
\* follows contains exactly one record with that id, carrying the draft's
\* fields.
C3_CreateThenListExactlyOne ==
    [][ /\ CreateReturns
            => /\ last'.result.id \notin (HeldBefore.local \cup HeldBefore.db)
               /\ SameFields(last'.result, last'.arg)
        /\ ListFollows("create")
            => /\ Cardinality(WithId(last'.result, last.result.id)) = 1
               /\ \A i \in WithId(last'.result, last.result.id) :
                      SameFields(last'.result[i], last.arg) ]_vars

(* ------------------------------ C4 ------------------------------------ *)

\* C4 as stated: the list() that follows a delete(id) which returned without
\* error contains no record with that id.
C4_DeleteThenListWithoutId ==
    [][ ListFollows("delete") => WithId(last'.result, last.arg) = {} ]_vars

(* ------------------------------ C5 ------------------------------------ *)

\* C5 as stated: a delete(id) whose id no record of the active backend held
\* when it was started does not raise (the ephemeral backend working) and
\* leaves both collections as they were.
C5_DeleteUnknownIdNoChange ==
    [][ (/\ DeleteCompletes
         /\ last'.arg \notin (IF last'.mode THEN HeldBefore.db ELSE HeldBefore.local))
          => /\ last'.outcome = "ok" \/ last'.ephFailed
             /\ LocalView(local') = LocalView(local)
             /\ IdsOfSet(db') = HeldBefore.db ]_vars

\* C5 amended: a delete(id) whose id no record of either backend held when
\* it was started raises only if its ephemeral execution fails, and leaves
\* both collections as they were: the same records (ids, names, dates, types
\* and durations) in the same order.
C5_DeleteUnheldIdNoChange ==
    [][ (/\ DeleteCompletes
         /\ last'.arg \notin (HeldBefore.db \cup HeldBefore.local))
          => /\ last'.outcome = "ok" \/ last'.ephFailed
             /\ LocalView(local') = LocalView(local)
             /\ IdsOfSet(db') = HeldBefore.db ]_vars

\* A delete of an id that neither backend holds was answered 404, fell back
\* and returned, with records in both backends.
C5_Witness ==
    /\ last.kind = "delete"
    /\ last.status = "404"
    /\ last.outcome = "ok"
    /\ op = Idle
    /\ last.arg = UnknownId
    /\ local # <<>>
    /\ db # {}

(* ------------------------------ C6 ------------------------------------ *)

\* C6 as stated: no two records of the same backend share an id.
C6_UniqueIds ==
    /\ \A i, j \in 1..Len(local) : i # j => local[i].id # local[j].id
    /\ \A r1, r2 \in db : r1.id = r2.id => r1 = r2

(* ------------------------------ C7 ------------------------------------ *)

\* C7: no record of one backend ever appears with its id in the other, the
\* backends gain a record only in a step of a create, and a list() in
\* durable mode whose durable attempt succeeded returns exactly the rows of
\* the table, in an order descending in created_at, none of them a record of
\* the ephemeral collection.
C7_BackendsNeverMerged ==
    [][ /\ IdsOf(local') \cap IdsOfSet(db') = {}
        /\ (Len(local') + Cardinality(db') > Len(local) + Cardinality(db))
            => \/ op # Idle /\ op.kind = "create"
               \/ op = Idle /\ op' = Idle /\ last'.kind = "create"
        /\ (Settles("list") /\ op.status = "200")
            => /\ last'.result \in getAllRecords(db)
               /\ IdsOf(last'.result) \cap IdsOf(local) = {} ]_vars

\* A list() answered by the durable backend was completed while the
\* ephemeral collection held a record written by a fallback.
C7_Witness ==
    /\ last.kind = "list"
    /\ last.status = "200"
    /\ op = Idle
    /\ db # {}
    /\ \E i \in 1..Len(local) : WrittenByFallback(local[i])

(* ------------------------------ C8 ------------------------------------ *)

\* C8: a step that changes the storage mode, and every step of a list(),
\* leaves the ephemeral collection, the table and its id sequence unchanged;
\* the list() a mode switch starts goes to the backend of the new mode.
C8_SwitchKeepsBackends ==
    [][ /\ (useSQLite' # useSQLite \/ ListStep)
            => (local' = local /\ db' = db /\ nextId' = nextId)
        /\ (useSQLite' # useSQLite)
            => IF useSQLite'
               THEN op' # Idle /\ op'.kind = "list" /\ last' = last
               ELSE op' = Idle /\ last'.kind = "list" /\ ~last'.mode ]_vars

\* The mode was switched to durable and back, the refresh of the switch
\* back has completed, and both backends hold records.
C8_Witness ==
    /\ ~useSQLite
    /\ op = Idle
    /\ last.kind = "list"
    /\ ~last.mode
    /\ db # {}
    /\ local # <<>>

(* ------------------------------ C9 ------------------------------------ *)

\* C9 as stated: a delete in durable mode that the durable backend answers
\* with 404 returns without an execution on the ephemeral backend, and the
\* ephemeral collection is as it was.
C9_NotFoundIsNoOp ==
    [][ (Settles("delete") /\ op.status = "404")
          => /\ last'.outcome = "ok"
             /\ last'.ephTries = 0
             /\ LocalView(local') = LocalView(local) ]_vars

(* ------------------------------ C10 ----------------------------------- *)

\* C10: a request is in flight only in durable mode; a completed operation
\* made at most one request to the durable backend and at most one execution
\* on the ephemeral backend; in durable mode it made the request, and the
\* ephemeral execution exactly when that attempt failed; in ephemeral mode it
\* made no request and one ephemeral execution.
C10_OneAttemptEach ==
    /\ op # Idle => (useSQLite /\ op.tries = 1)
    /\ last.kind # "none" =>
        /\ last.durTries <= 1
        /\ last.ephTries <= 1
        /\ last.mode => /\ last.durTries = 1
                        /\ last.ephTries = 1 <=> DurableFailed(last)
        /\ ~last.mode => /\ last.durTries = 0
                         /\ last.ephTries = 1
                         /\ last.status = "none"

\* An operation in durable mode has made its one request and, that having
\* failed, its one execution on the ephemeral backend.
C10_Witness ==
    /\ last.kind # "none"
    /\ last.mode
    /\ last.durTries = 1
    /\ last.ephTries = 1

(* ------------------------------ C15 ----------------------------------- *)

\* C15 as stated: a list() returns the records of the backend that answered
\* it most-recently-created first.  The table hands out ascending ids, so of
\* two rows the one created later has the larger id, also when both carry
\* the same created_at value; Date.now() never decreases, so of two records
\* of the ephemeral collection the one created later has no smaller id.
C15_MostRecentFirst ==
    (last.kind = "list" /\ last.outcome = "ok") =>
        \A i, j \in 1..Len(last.result) :
            i < j => IF last.status = "200"
                     THEN last.result[i].id > last.result[j].id
                     ELSE last.result[i].id >= last.result[j].id

(* ------------------------------ C16 ----------------------------------- *)

\* C16 as stated: a list() executed on the ephemeral backend returns every
\* record with a duration and a created_at stamp, and the record stored
\* without them is still stored without them, whatever was listed, created
\* or deleted besides it.
C16_LegacyDefaultsNotPersisted ==
    /\ (last.kind = "list" /\ last.outcome = "ok" /\ last.ephTries = 1)
        => \A i \in 1..Len(last.result) :
               /\ Has(last.result[i], "duration")
               /\ Has(last.result[i], "created_at")
               /\ last.result[i].id = LegacyRecord.id => last.result[i].duration = "full"
    /\ \A i \in 1..Len(local) :
           local[i].id = LegacyRecord.id => local[i] = LegacyRecord

(* ------------------------------ C17 ----------------------------------- *)

\* C17 as stated: no step changes a stored record that a create wrote (a
\* row of the table, or a record of the ephemeral collection that carries
\* all its fields): afterwards every record with its id is that record; and
\* in the list() that follows a create, every record with the returned id
\* is the returned record, field by field.
C17_RecordsImmutable ==
    [][ /\ \A r \in db : \A q \in db' : q.id = r.id => q = r
        /\ \A i \in 1..Len(local) :
               (Has(local[i], "duration") /\ Has(local[i], "created_at"))
                   => \A j \in WithId(local', local[i].id) : local'[j] = local[i]
        /\ ListFollows("create")
            => \A i \in WithId(last'.result, last.result.id) :
                   last'.result[i] = last.result ]_vars

(* ------------------------ reading the views --------------------------- *)

RECURSIVE NumberOf(_)
\* The number a string of digits writes.
NumberOf(s) ==
    IF s = "" THEN 0
    ELSE NumberOf(SubSeq(s, 1, Len(s) - 1)) * 10
         + (CodeUnit(charAt(s, Len(s))) - CodeUnit("0"))

\* The calendar date a yyyy-MM-dd string writes.
DateOf(s) ==
    [year |-> NumberOf(SubSeq(s, 1, 4)), month |-> NumberOf(SubSeq(s, 6, 7)),
     day |-> NumberOf(SubSeq(s, 9, 10))]

\* The string p is the first Len(p) characters of s.
HasPrefix(s, p) == \E n \in 0..Len(s) : SubSeq(s, 1, n) = p

\* The positions of the collection recs, and the (record, name) positions in
\* it, that a predicate or a name selects.
Positions(recs, Keep(_)) == { i \in 1..Len(recs) : Keep(recs[i]) }

Occurrences(recs, name, Keep(_)) ==
    UNION { { <<i, k>> : k \in { k \in 1..Len(recs[i].names) : recs[i].names[k] = name } } :
            i \in Positions(recs, Keep) }

\* The sequence s holds no value twice.
NoDuplicates(s) == \A i, j \in 1..Len(s) : i # j => s[i] # s[j]

(* ------------------------------ C12 ----------------------------------- *)

\* The record passes the statistics filter: each of type, year prefix and
\* month prefix is "all" or fits the record.
PassesStatsFilter(r) ==
    /\ filters.statsFilterType \in {"all", r.type}
    /\ filters.statsFilterYear = "all" \/ HasPrefix(r.date, filters.statsFilterYear)
    /\ filters.statsFilterMonth = "all" \/ HasPrefix(r.date, filters.statsFilterMonth)

\* The number of occurrences of a name in the passing records of a type, and
\* their half days: two for an occurrence of duration full, one otherwise.
CountOf(name, type) ==
    Cardinality(Occurrences(records, name,
                            LAMBDA r : PassesStatsFilter(r) /\ r.type = type))

HalfDaysOf(name, type) ==
    2 * Cardinality(Occurrences(records, name,
            LAMBDA r : PassesStatsFilter(r) /\ r.type = type /\ r.duration = "full"))
    + Cardinality(Occurrences(records, name,
            LAMBDA r : PassesStatsFilter(r) /\ r.type = type
                       /\ r.duration \in {"morning", "afternoon"}))

\* C12: for every collection of records and every statistics filter, the
\* statistics computed hold exactly one entry per name that occurs in a
\* record passing the filter, and in the entry of a name each count is the
\* number of occurrences of the name in the passing records of that type and
\* each day total is the sum, over those occurrences, of 1 for duration full
\* and 0.5 for morning or afternoon (held here in half days).
C12_StatisticsEqualReference ==
    /\ NoDuplicates([i \in 1..Len(shown.statistics) |-> shown.statistics[i].name])
    /\ { shown.statistics[i].name : i \in 1..Len(shown.statistics) }
         = UNION { Range(records[i].names) : i \in Positions(records, PassesStatsFilter) }
    /\ \A i \in 1..Len(shown.statistics) :
           /\ shown.statistics[i].overtimeCount = CountOf(shown.statistics[i].name, "overtime")
           /\ shown.statistics[i].leaveCount = CountOf(shown.statistics[i].name, "leave")
           /\ shown.statistics[i].overtimeDays = HalfDaysOf(shown.statistics[i].name, "overtime")
           /\ shown.statistics[i].leaveDays = HalfDaysOf(shown.statistics[i].name, "leave")

\* Statistics under a type filter that leaves out a record of the
\* collection, with an entry that counts a half day and an entry that counts
\* one name twice in one record.
C12_Witness ==
    /\ filters.statsFilterType = "overtime"
    /\ filters.statsFilterYear = "2024"
    /\ Cardinality(Positions(records, PassesStatsFilter)) < Len(records)
    /\ \E i \in 1..Len(shown.statistics) :
           /\ shown.statistics[i].overtimeCount = 2
           /\ shown.statistics[i].overtimeDays = 2
           /\ shown.statistics[i].leaveCount = 0

(* ------------------------------ C14 ----------------------------------- *)

\* The name holds the text somewhere, letter case aside.
HoldsText(name, text) ==
    \E a \in 1..(Len(name) + 1) : \E b \in (a - 1)..Len(name) :
        toLowerCase(SubSeq(name, a, b)) = toLowerCase(text)

\* Every predicate of the records view that is set matches the record.
PassesFilter(r) ==
    /\ filters.filterDate # undefined => DateOf(r.date) = DateIn(filters.filterDate)
    /\ filters.filterType # "all" => r.type = filters.filterType
    /\ filters.filterYear # "" => HasPrefix(r.date, filters.filterYear)
    /\ filters.filterMonth # "" => HasPrefix(r.date, filters.filterMonth)
    /\ filters.searchName # "" =>
           \E k \in 1..Len(r.names) : HoldsText(r.names[k], filters.searchName)

\* C14: the filtered view holds exactly the records of the collection that
\* every set predicate (exact date, type, year prefix, month prefix, name
\* search) matches, in the order of the collection; a predicate that is not
\* set matches every record, the name search matches when one of the names
\* holds the text, letter case aside; with no predicate set the view is the
\* collection.
C14_FilteredViewIsConjunction ==
    /\ \A i \in 1..Len(records) :
           (\E j \in 1..Len(shown.filteredRecords) : shown.filteredRecords[j] = records[i])
               <=> PassesFilter(records[i])
    /\ \A j \in 1..Len(shown.filteredRecords) :
           \E i \in 1..Len(records) : records[i] = shown.filteredRecords[j]
    /\ \A j, k \in 1..Len(shown.filteredRecords) :
           j < k => \E i, l \in 1..Len(records) :
                        /\ i < l
                        /\ records[i] = shown.filteredRecords[j]
                        /\ records[l] = shown.filteredRecords[k]
    /\ filters = NoFilters => shown.filteredRecords = records

\* A view under a type filter and a name search that holds one record of a
\* collection of two, found by a name that differs from the search text in
\* letter case only.
C14_Witness ==
    /\ filters.searchName = "a"
    /\ filters.filterType = "overtime"
    /\ Len(records) = 2
    /\ Len(shown.filteredRecords) = 1
    /\ \A k \in 1..Len(shown.filteredRecords[1].names) :
           ~includes(shown.filteredRecords[1].names[k], "a")

(* ------------------------------ C20 ----------------------------------- *)

\* The month a yyyy-MM string writes, counted from year 0.
MonthNumber(s) == NumberOf(SubSeq(s, 1, 4)) * 12 + NumberOf(SubSeq(s, 6, 7))

\* The record counts for the months offered: no year is selected, or the
\* year of its date is the selected one.
OfSelectedYear(r) ==
    filters.filterYear = "" \/ SubSeq(r.date, 1, 4) = filters.filterYear

\* C20: the available years are the distinct 4-character prefixes of the
\* dates of all records, each once, in descending order; the available
\* months are the distinct 7-character prefixes, each once, in descending
\* order, of the dates of all records when no year is selected and of the
\* records of the selected year otherwise.
C20_FacetsDistinctDescending ==
    /\ Range(shown.availableYears) = { SubSeq(r.date, 1, 4) : r \in Range(records) }
    /\ \A i, j \in 1..Len(shown.availableYears) :
           i < j => NumberOf(shown.availableYears[i]) > NumberOf(shown.availableYears[j])
    /\ Range(shown.availableMonths)
         = { SubSeq(records[i].date, 1, 7) : i \in Positions(records, OfSelectedYear) }
    /\ \A i, j \in 1..Len(shown.availableMonths) :
           i < j => MonthNumber(shown.availableMonths[i]) > MonthNumber(shown.availableMonths[j])

\* Records of two years with one year selected: two years are offered, the
\* later one first, and the month of the other year is not offered.
C20_Witness ==
    /\ filters.filterYear = "2023"
    /\ shown.availableYears = <<"2024", "2023">>
    /\ shown.availableMonths = <<"2023-12">>

(* ------------------- C11: the switch and its refresh ------------------ *)

\* The step is the Switch.
Switches == useSQLite' # useSQLite

\* The step starts a request to the durable backend.
StartsCall == Len(calls') > Len(calls)

\* The step resumes the loadRecords suspended at position i.
LoadCompletes(i) ==
    /\ calls[i].kind = "load"
    /\ calls[i].pc = "resp"
    /\ calls' = Without(calls, i)

ListOutcomes(m, rows, stored, t) ==
    {getLocalRecords(stored, t)} \cup
    (IF m THEN { FetchedRecords(body, t) : body \in getAllRecords(rows) } ELSE {})

\* The statistics stats are those of a result of list().
StatisticsOfList(stats, m, rows, stored, t) ==
    \E l \in ListOutcomes(m, rows, stored, t) : stats = statistics(l, NoFilters)

\* The step completes an addRecord or a deleteRecord: one suspended at its
\* request resumes, or one started in ephemeral mode runs to its end.
CompletesCreateOrDelete ==
    \/ \E i \in 1..Len(calls) :
           /\ calls[i].kind \in {"add", "delete"}
           /\ calls[i].pc = "resp"
           /\ calls' = Without(calls, i)
    \/ /\ mounted
       /\ ~Switches
       /\ calls' = calls
       /\ records' # records \/ local' # local

\* C13: statistics stay correct under creates and deletes: when the
\* statistics on the page equal the statistics of the records list() returns,
\* they still do after an addRecord or a deleteRecord completes, in either
\* mode, whether the durable request succeeded or failed.
C13_StatisticsFollowList ==
    [][ ( /\ CompletesCreateOrDelete
          /\ StatisticsOfList(shown.statistics, useSQLite, db, local, now) )
        => StatisticsOfList(shown'.statistics, useSQLite', db', local', now') ]_vars

(* ------------------ C18: validation before the backends --------------- *)

\* The name input is empty or holds white space only, or no date is
\* selected.
InvalidInput(nameInput, selectedDate) ==
    \/ selectedDate = undefined
    \/ \A k \in 1..Len(nameInput) : IsWhitespace(charAt(nameInput, k))

\* At least one name, every name non-empty and free of white space.
ValidNames(names) ==
    /\ Len(names) >= 1
    /\ \A i \in 1..Len(names) :
           /\ names[i] # ""
           /\ \A k \in 1..Len(names[i]) : ~IsWhitespace(charAt(names[i], k))

\* The records of the ephemeral collection stored, of the table rows and of
\* the requests to create a record suspended have valid names.
NamesValid(stored, rows, suspended) ==
    /\ \A i \in 1..Len(stored) : ValidNames(stored[i].names)
    /\ \A row \in rows : ValidNames(RowToRecord(row).names)
    /\ \A i \in 1..Len(suspended) :
           suspended[i].kind = "add" => ValidNames(suspended[i].what.record.names)

\* C18: validation precedes any backend call: addRecord with an empty or
\* white-space-only name input, or with no date selected, alerts, issues no
\* durable request and writes nothing to the ephemeral backend, and leaves
\* both backends and the collection shown as they were; every record in a
\* backend, or on its way to one, has at least one name, each name non-empty
\* and without white space.
C18_ValidationPrecedesBackend ==
    [][ /\ \A type \in FormTypes, nameInput \in NameInputs, selectedDate \in FormDates :
               (InvalidInput(nameInput, selectedDate) /\ addRecord(type, nameInput, selectedDate))
               => /\ alerted' = "validation"
                  /\ UNCHANGED <<local, db, nextId, calls, records, shown>>
        /\ alerted' \in {"validation", "names"} =>
               UNCHANGED <<local, db, nextId, calls, records, shown>>
        /\ NamesValid(local', db', calls') ]_vars

\* addRecord has rejected the form while both backends hold a record and a
\* request is suspended.
C18_Witness ==
    /\ alerted = "validation"
    /\ local # <<>>
    /\ db # {}
    /\ calls # <<>>
    /\ records # <<>>

(* --------------- C19: a failure of the ephemeral backend -------------- *)

\* The step ends a handler whose ephemeral attempt has thrown: the alert of
\* the catch branch of addRecord or deleteRecord opens.
EphemeralFailureSurfaced == alerted' \in {"saveFailed", "deleteFailed"}

\* The step ends the handler suspended at position i, its durable attempt
\* having failed.
FallbackEnds(i) ==
    /\ calls[i].kind = (IF alerted' = "saveFailed" THEN "add" ELSE "delete")
    /\ calls[i].pc = "resp"
    /\ ~calls[i].ok
    /\ calls' = Without(calls, i)

\* The step starts a request, or a request is handled or settles: no handler
\* ends.
HandlerSuspended == StartsCall \/ (Len(calls') = Len(calls) /\ calls' # calls)

\* C19: a failure of the ephemeral backend during create or delete is fatal
\* and not retried: the step in which the ephemeral attempt throws ends the
\* handler with its alert (in ephemeral mode at once, in durable mode as the
\* one attempt that follows the failed request), the ephemeral collection
\* stored and the collection shown are what they were, the table is not
\* touched, and no step of a handler before its end changes either
\* collection.
C19_EphemeralFailureFatal ==
    [][ /\ EphemeralFailureSurfaced =>
               /\ UNCHANGED <<local, records, shown, db, nextId, useSQLite>>
               /\ ~loading'
               /\ \/ calls' = calls /\ ~useSQLite
                  \/ \E i \in 1..Len(calls) : FallbackEnds(i)
        /\ HandlerSuspended => UNCHANGED <<local, records, shown>> ]_vars

\* In durable mode a create whose request failed has failed on the ephemeral
\* backend too, while records are stored and shown.
C19_Witness ==
    /\ alerted = "saveFailed"
    /\ useSQLite
    /\ local # <<>>
    /\ records # <<>>

(* --------------------- C22: one backend per create -------------------- *)

\* The create this step completes has inserted a row into the table.
CreateInsertedRow == IdsOfSet(db') # HeldBefore.db

\* The create this step completes writes its record to the ephemeral
\* collection.
CreateWroteLocal == Len(local') = Len(local) + 1

\* C22: every create stores its record in exactly one backend: when
\* create(draft) returns, the operation has inserted a row into the table or
\* written a record to the ephemeral collection, never both, also when the
\* insert was committed and its response was lost or not OK.
C22_OneBackendPerCreate ==
    [][ CreateReturns => (CreateInsertedRow # CreateWroteLocal) ]_vars

(* ------------- C26: the frame of an ephemeral mutation ---------------- *)

\* The operation this step completes has run on the ephemeral backend and
\* did not throw.
RanOnLocal == last'.ephTries = 1 /\ ~last'.ephFailed

\* C26: every mutation of the ephemeral backend preserves all other
\* records: a create puts exactly one record in front of the collection, a
\* delete(id) takes out at most one record, the one with that id, and the
\* records that remain are those held before, in their order.
C26_EphemeralFrame ==
    [][ /\ (CreateReturns /\ RanOnLocal) =>
               /\ Len(local') = Len(local) + 1
               /\ LocalView(Tail(local')) = LocalView(local)
        /\ (DeleteCompletes /\ RanOnLocal) =>
               /\ Len(local) - Len(local') <= 1
               /\ LocalView(local') = SelectSeq(LocalView(local), LAMBDA r : r.id # last'.arg)
      ]_vars

(* ------------------- C25: the "all" option of a Select ---------------- *)

\* The year and month Selects hold "all" or nothing, at least one of them
\* "all", and no other predicate of the records view is set.
OnlyAllChosen ==
    /\ filters.filterYear \in {"", "all"}
    /\ filters.filterMonth \in {"", "all"}
    /\ "all" \in {filters.filterYear, filters.filterMonth}
    /\ filters.filterDate = undefined
    /\ filters.filterType = "all"
    /\ filters.searchName = ""

\* C25: in the records view the "all years" and "all months" options are
\* equivalent to an unset predicate: with one of them chosen and no other
\* predicate set, every record is in the filtered view and the available
\* months are those of all records.
C25_AllOptionIsUnset ==
    OnlyAllChosen =>
        /\ shown.filteredRecords = records
        /\ shown.availableMonths = availableMonths(records, NoFilters)

(* ------------- C23: the collection of the page and list() ------------- *)

\* The collection recs holds a row of the table and a record of the
\* ephemeral collection.
HoldsBothBackends(recs) ==
    /\ \E i \in 1..Len(recs) : recs[i].id \in IdsOfSet(db)
    /\ \E i \in 1..Len(recs) : recs[i].id \in IdsOf(local)

\* C23: whenever no operation is in flight, the collection the page holds
\* is, record by record and in the same order, what list() returns at that
\* moment (the rows of the table, or the ephemeral collection); it never
\* holds records of both backends.
C23_PageHoldsList ==
    (mounted /\ calls = <<>>) =>
        /\ records \in ListOutcomes(useSQLite, db, local, now)
        /\ ~HoldsBothBackends(records)

(* ------------ C24: operations and the mode switch overlap ------------- *)

\* C24: whenever an operation of the Store (a load, a create or a delete)
\* is in flight the loading flag is true, so that the Switch is disabled and
\* the mode cannot change before the operation completes, also when a second
\* addRecord is started while a first one is in flight.
C24_LoadingWhileInFlight == calls # <<>> => loading

(* ------------------ C21: every operation completes -------------------- *)

\* C21: when every request to the durable backend responds or fails in the
\* end, every operation issued completes: the oldest request in flight
\* settles, the handler of the oldest operation in flight ends, again and
\* again unless none is left, once no further request is started none stays
\* in flight, and loading is false whenever no operation is in flight.
C21_OperationsComplete ==
    /\ [](calls = <<>> => ~loading)
    /\ (calls # <<>> /\ Head(calls).pc = "req") ~> (calls = <<>> \/ Head(calls).pc = "resp")
    /\ []<><<HandlerEnds(1)>>_calls \/ <>[](calls = <<>>)
    /\ <>[][~StartsCall]_vars => <>[](calls = <<>>)

\* All the operations issued have completed, in durable mode, one of them a
\* create that inserted a row; loading is false.
C21_Witness ==
    /\ mounted
    /\ useSQLite
    /\ calls = <<>>
    /\ ~loading
    /\ db # {}
    /\ records # <<>>

====
